---- MODULE Spec2Model ----
(***************************************************************************)
(* ScienceBackground (src/src/components/ScienceBackground.tsx): the       *)
(* seeded xorshift32 generator, the floater spawner, the per-frame         *)
(* simulation step and the effect lifecycle (mount, prop change, frame     *)
(* callback, resize, unmount).                                             *)
(*                                                                         *)
(* Numbers.  The generator state is the exact 32-bit word, kept as two     *)
(* 16-bit halves <<hi, lo>>.  The doubles of the program (x, y, z, rot,    *)
(* speed, scaleJitter, zMin, zMax, rand() results) are fixed-point         *)
(* integers in units of 1/Unit = 1e-8, multiplied limb by limb so that no  *)
(* intermediate exceeds 31 bits.  The speed prop is in tenths, opacity in  *)
(* hundredths, density in tenths, time in milliseconds, devicePixelRatio   *)
(* in eighths (binary fractions, whose products with the integer viewport  *)
(* sizes the program's doubles hold exactly).                              *)
(*                                                                         *)
(* Math.pow, Math.sin and Math.cos are implementation-approximated, and    *)
(* the fixed-point results are rounded, so a model value can differ from   *)
(* the program's double by a few units, and the difference grows with the  *)
(* age of a floater.  Every floater carries err, a bound in units on that  *)
(* difference for its x, y and z, and rotErr, the same for rot.  A         *)
(* comparison of a coordinate with a threshold (edge wrap, respawn) that   *)
(* lies farther than err from the threshold has the one outcome the        *)
(* program has; within err both outcomes are possible, and the loop yields *)
(* the set of results.  With err = 0 the comparisons are exact.            *)
(***************************************************************************)
EXTENDS Integers, Sequences, FiniteSets, TLC

VARIABLES
    phase,        \* "init" (not yet mounted), "mounted", "unmounted", or
                  \* "crashed" (the effect threw and React removed the tree)
    props,        \* the component's props of the current render
    hasCtx,       \* c.getContext("2d") returned a context
    s,            \* the generator's closure variable s (useMemo, line 50)
    elements,     \* elementsRef.current
    rafRef,       \* rafRef.current (0 models null)
    lastTime,     \* lastTimeRef.current
    running,      \* running[e]: the closure variable `running` of effect run e
    pending,      \* the browser's list of animation frame callbacks
    nextRafId,    \* the handle the next requestAnimationFrame call returns
    listeners,    \* effect runs whose onResize is a registered resize listener
    win,          \* window.innerWidth, innerHeight, devicePixelRatio (eighths)
    canvas,       \* c.width, c.height
    now,          \* the browser's clock, ms
    ticks,        \* display refreshes so far
    frameLog,     \* what the last executed loop body did to each floater
    advanced,     \* loop bodies that ran in the last display refresh
    life,         \* per floater: recycles so far, frames with dt > 0 it
                  \* was advanced in since its last spawn, and between its
                  \* last two spawns
    calls,        \* rand() calls made so far (SpecRand)
    v             \* the last value rand() returned (SpecRand)

vars == <<phase, props, hasCtx, s, elements, rafRef, lastTime, running, pending,
          nextRafId, listeners, win, canvas, now, ticks, frameLog, advanced,
          life, calls, v>>

----------------------------------------------------------------------------
(* Bounds of the model *)

MaxTicks == 2
MaxFrames == 6
MaxEffects == 2
MaxCalls == 40

----------------------------------------------------------------------------
(* Fixed-point arithmetic *)

Limb == 100 * 100
Unit == Limb * Limb
Word == 256 * 256
Byte == 16 * 16

Pi == 314159265
TwoPi == 2 * Pi
HalfPi == Pi \div 2

Min(a, b) == IF a < b THEN a ELSE b
Max(a, b) == IF a > b THEN a ELSE b
Abs(a) == IF a < 0 THEN 0 - a ELSE a

(* a * b in units of 1/Unit, rounded down: with a = a1 * Limb + a0 and      *)
(* b = b1 * Limb + b0 the product over Limb^2                               *)
Mul(a, b) ==
    (a \div Limb) * (b \div Limb)
      + ((a \div Limb) * (b % Limb) + (a % Limb) * (b \div Limb)
           + ((a % Limb) * (b % Limb)) \div Limb) \div Limb

(* a * k / Limb rounded down, for an integer factor k *)
ScaleDown(a, k) == (a \div Limb) * k + ((a % Limb) * k) \div Limb

(* a / q in units of 1/Unit, rounded down, by decimal long division *)
RECURSIVE LongDiv(_, _, _, _)
LongDiv(rem, q, k, acc) ==
    IF k = 0 THEN acc
    ELSE LongDiv((rem * 10) % q, q, k - 1, acc * 10 + (rem * 10) \div q)

Div(a, q) == LongDiv(a % q, q, 8, a \div q)

(* Math.round(d / 10): the nearest integer, halves toward +infinity *)
Round(d) == (d + 5) \div 10

----------------------------------------------------------------------------
(* 32-bit words as <<hi, lo>> *)

RECURSIVE XorBits(_, _, _)
XorBits(a, b, n) ==
    IF n = 0 THEN 0
    ELSE ((a + b) % 2) + 2 * XorBits(a \div 2, b \div 2, n - 1)

XorTab == [a \in 0..(Byte - 1) |-> [b \in 0..(Byte - 1) |-> XorBits(a, b, 8)]]

Xor16(a, b) ==
    XorTab[a \div Byte][b \div Byte] * Byte + XorTab[a % Byte][b % Byte]

(* a ^ b on 32-bit words *)
Xor32(a, b) == <<Xor16(a[1], b[1]), Xor16(a[2], b[2])>>

(* a << k for 0 < k < 16, truncated to 32 bits *)
Shl(a, k) ==
    <<(a[1] * (2 ^ k) + a[2] \div (2 ^ (16 - k))) % Word,
      (a[2] % (2 ^ (16 - k))) * (2 ^ k)>>

(* a >>> k for 16 <= k < 32 *)
Shr(a, k) == <<0, a[1] \div (2 ^ (k - 16))>>

(* seed >>> 0: ToUint32 of an integer seed *)
ToUint32(n) == <<(n \div Word) % Word, n % Word>>

(* s ^= s << 13; s ^= s >>> 17; s ^= s << 5 *)
XorShift32(a) ==
    LET b == Xor32(a, Shl(a, 13))
        c == Xor32(b, Shr(b, 17))
        d == Xor32(c, Shl(c, 5))
    IN  d

(* a * Limb = q * (2^32 - 1) + r for a word a: the quotient q and the      *)
(* remainder word r.  With a * Limb = Q * 2^32 + R the quotient is Q, plus  *)
(* one when Q + R >= 2^32 - 1.                                              *)
DivAllOnes(a) ==
    LET A   == a[1] * Limb
        B   == a[2] * Limb
        Chi == (A % Word) + (B \div Word)
        Q   == (A \div Word) + (Chi \div Word)
        lo  == (B % Word) + Q
        hi  == (Chi % Word) + (lo \div Word)
    IN  IF hi >= Word THEN [q |-> Q + 1, r |-> <<0, (lo % Word) + 1>>]
        ELSE IF hi = Word - 1 /\ lo % Word = Word - 1
             THEN [q |-> Q + 1, r |-> <<0, 0>>]
             ELSE [q |-> Q, r |-> <<hi, lo % Word>>]

(* (s >>> 0) / 0xffffffff in units of 1/Unit, rounded down: two steps of    *)
(* the division, four decimal digits each                                   *)
ToUnitInterval(a) == DivAllOnes(a).q * Limb + DivAllOnes(DivAllOnes(a).r).q

RandResult(a) == [s |-> a, v |-> ToUnitInterval(a)]

(* One call of rand(): the new generator state and the value returned *)
rand(a) == RandResult(XorShift32(a))

(* n successive calls of rand() from state a, in call order, after acc *)
RECURSIVE RandCalls(_, _, _)
RandCalls(a, n, acc) ==
    IF n = 0 THEN acc
    ELSE RandCalls(rand(a).s, n - 1, Append(acc, rand(a)))

----------------------------------------------------------------------------
(* Program constants, in the model's units *)

DensityMin == 12
DensityMax == 200
DtMax == 50

DefaultProps ==
    [speed |-> 10, density |-> 720, opacity |-> 18, color |-> "#e2e8f0",
     seed |-> 1337, zMin |-> 35 * (Unit \div 100), zMax |-> 22 * (Unit \div 10)]

----------------------------------------------------------------------------
(* Math.pow(u, 1.2) = u * u^(1/5), the fifth root by Newton's iteration     *)
(* r <- (4 r + u / r^4) / 5 from r = 1 downwards until it stops decreasing  *)

Fourth(r) == Mul(Mul(r, r), Mul(r, r))

Root5Next(u, r, q) == IF q = 0 THEN r ELSE (4 * r + Div(u, q)) \div 5

RECURSIVE Root5From(_, _)
Root5Step(u, r, n) == IF n >= r THEN r ELSE Root5From(u, n)

Root5From(u, r) == Root5Step(u, r, Root5Next(u, r, Fourth(r)))

Root5(u) == IF u <= 0 THEN 0 ELSE Root5From(u, Unit)

Pow12(u) == Mul(u, Root5(u))

(* Math.sin and Math.cos of an angle in units of 1/Unit rad: the angle is   *)
(* reduced to [0, pi/2] and the Taylor polynomial of degree 11 is taken     *)
SinPoly(x, t) ==
    Mul(x, Unit - Mul(t, Unit - Mul(t, Unit - Mul(t, Unit - Mul(t,
           Unit - t \div 110) \div 72) \div 42) \div 20) \div 6)

SinHalf(r) ==
    IF r <= HalfPi THEN SinPoly(r, Mul(r, r))
    ELSE SinPoly(Pi - r, Mul(Pi - r, Pi - r))

Sin(a) ==
    IF a % TwoPi <= Pi THEN SinHalf(a % TwoPi)
    ELSE 0 - SinHalf((a % TwoPi) - Pi)

Cos(a) == Sin(a + HalfPi)

----------------------------------------------------------------------------
(* spawn(), lines 70-83 *)

FloaterType(u) ==
    IF u < 25 * (Unit \div 100) THEN "equation"
    ELSE IF u < 55 * (Unit \div 100) THEN "molecule"
    ELSE IF u < 80 * (Unit \div 100) THEN "graph"
    ELSE "chemRing"

(* zMax - (zMax - zMin) * Math.pow(u, 1.2) *)
SpawnZ(u, p) == p.zMax - Mul(p.zMax - p.zMin, Pow12(u))

(* (0.12 + u * 0.28) * (1 + (zMax - z) * 0.6) *)
SpawnSpeed(u, z, p) ==
    Mul(12 * (Unit \div 100) + (u * 7) \div 25,
        Unit + ((p.zMax - z) * 3) \div 5)

(* The distance, in units, within which a spawned floater's rot lies from   *)
(* the program's double: the rounded rand() result times 2 pi, the          *)
(* rounding of the product and of pi                                        *)
RotErr == 9

(* The distance, in units, within which a spawned floater's x, y, z and     *)
(* speed lie from the program's doubles: one unit for the rounded rand()    *)
(* result, two for Math.pow, scaled by the depth range                      *)
SpawnErr(p) == 2 + 3 * ((Abs(p.zMax - p.zMin) + Unit - 1) \div Unit)

(* The floater built from the seven rand() results r, in call order: type,    *)
(* z, x, y, rot, speed, scaleJitter; z is the depth SpawnZ gave              *)
SpawnFrom(r, z, p) ==
    [f |-> [x           |-> r[3].v,
            y           |-> r[4].v,
            z           |-> z,
            rot         |-> Mul(r[5].v, TwoPi),
            type        |-> FloaterType(r[1].v),
            speed       |-> SpawnSpeed(r[6].v, z, p),
            scaleJitter |-> 8 * (Unit \div 10) + (r[7].v * 3) \div 5,
            err         |-> SpawnErr(p),
            rotErr      |-> RotErr],
     s |-> r[7].s]

SpawnWith(r, p) == SpawnFrom(r, SpawnZ(r[2].v, p), p)

(* The floater returned and the generator state after the seven rand() calls *)
spawn(a, p) == SpawnWith(RandCalls(a, 7, <<>>), p)

(* The density prop that is NaN: a value apart from every number of tenths *)
NaN == 0 - Word * (Word \div 4)

(* Math.max(12, Math.min(200, Math.round(density))): Math.round, Math.min    *)
(* and Math.max each return NaN for a NaN argument                           *)
target(density) ==
    IF density = NaN THEN NaN
    ELSE Max(DensityMin, Min(DensityMax, Round(density)))

(* Array.map(spawn) and the for loop of loop(t) are evaluated in chunks of  *)
(* Chunk slots, so that the depth of the recursion stays small for large    *)
(* arrays                                                                   *)
Chunk == 4 * 4

Spawned(pop, r) == [elements |-> Append(pop.elements, r.f), s |-> r.s]

(* map(spawn) continued from pop until n floaters are made *)
RECURSIVE SpawnUntil(_, _, _)
SpawnUntil(pop, n, p) ==
    IF Len(pop.elements) >= n THEN pop
    ELSE SpawnUntil(Spawned(pop, spawn(pop.s, p)), n, p)

RECURSIVE SpawnFill(_, _, _)
SpawnFill(pop, n, p) ==
    IF Len(pop.elements) >= n THEN pop
    ELSE SpawnFill(SpawnUntil(pop, Min(n, Len(pop.elements) + Chunk), p), n, p)

(* new Array(n).fill(0).map(spawn) from generator state a: the floaters and  *)
(* the generator state afterwards                                            *)
SpawnMany(n, a, p) == SpawnFill([elements |-> <<>>, s |-> a], n, p)

----------------------------------------------------------------------------
(* loop(t), lines 253-305: the simulation step *)

(* (Math.sin(f.rot) * 0.004 + (u - 0.5) * 0.002) * dt * 60, with trig the    *)
(* value of Math.sin or Math.cos, u the rand() result and dt in ms           *)
Drift(trig, u, dt) ==
    ScaleDown((trig * 4) + ((u - Unit \div 2) * 2), dt * 3) \div 5

(* A depth step of the opposite sign *)
DepthStepReversed(f, p, dt) == 0 - ScaleDown(f.speed, p.speed * dt)

(* f.speed * speed * dt, with the speed prop in tenths and dt in ms *)
DepthStep(f, p, dt) == ScaleDown(f.speed, p.speed * dt)

(* The distance, in units, within which Sin and Cos lie from the sine and    *)
(* cosine of their argument                                                  *)
SinErr == 8

(* What one frame adds to a floater's rotErr: the rounding of the noise *)
RotErrGrowth == 1 + 1

(* What one frame of dt ms adds to floater f's err, the larger of: for x     *)
(* and y, the error of the sine and of rot over the drift 0.004 * dt * 60,   *)
(* and the rounding; for z, the error of speed over the step, and the        *)
(* rounding                                                                  *)
ErrGrowth(f, p, dt) ==
    IF dt = 0 THEN 0
    ELSE Max(3 + ((SinErr + f.rotErr) * 6 * dt) \div 25000,
             2 + (SpawnErr(p) * Abs(p.speed * dt)) \div Limb)

EdgeLo == 0 - Unit \div 10
EdgeHi == Unit + Unit \div 10

(* if (c < -0.1) c = 1.1; if (c > 1.1) c = -0.1, for a coordinate known to   *)
(* within e: the values the program can leave in c                           *)
Wrap(c, e) ==
    (IF c - e < EdgeLo THEN {EdgeHi} ELSE {})
      \cup (IF c + e >= EdgeLo /\ c + e > EdgeHi THEN {EdgeLo} ELSE {})
      \cup (IF c + e >= EdgeLo /\ c - e <= EdgeHi THEN {c} ELSE {})

(* zMin * 0.85, rounded down: zMin less three twentieths of it, rounded up *)
NearPlane(p) == p.zMin - (p.zMin * 3 + 19) \div 20

(* f.z <= zMin * 0.85 for a depth known to within e: the truth values the    *)
(* comparison can have                                                       *)
PastNearPlane(z, e, p) ==
    (IF z - e <= NearPlane(p) THEN {TRUE} ELSE {})
      \cup (IF z + e > NearPlane(p) THEN {FALSE} ELSE {})

(* A respawn that takes the fresh spawn's type as well *)
RespawnTakesType(f, nf, p) ==
    [x |-> nf.x, y |-> nf.y, z |-> p.zMax, rot |-> nf.rot, speed |-> nf.speed,
     scaleJitter |-> nf.scaleJitter, type |-> nf.type, err |-> nf.err,
     rotErr |-> nf.rotErr]

(* Lines 289-291: the floater after it is respawned from the fresh spawn nf *)
Respawn(f, nf, p) ==
    [x |-> nf.x, y |-> nf.y, z |-> p.zMax, rot |-> nf.rot, speed |-> nf.speed,
     scaleJitter |-> nf.scaleJitter, type |-> f.type, err |-> nf.err,
     rotErr |-> nf.rotErr]

(* Lines 276-285 for floater f, with r the three rand() results in call      *)
(* order: drift, depth advance, rotation noise and edge wrap.  The set of    *)
(* results: the moved floater and the generator state.                       *)
MoveWith(f, r, p, dt) ==
    { [f |-> [f EXCEPT !.x   = wx,
                       !.y   = wy,
                       !.z   = f.z - DepthStep(f, p, dt),
                       !.rot = f.rot + ((r[3].v - Unit \div 2) \div 500),
                       !.err = f.err + ErrGrowth(f, p, dt),
                       !.rotErr = f.rotErr + RotErrGrowth],
       s |-> r[3].s] :
        wx \in Wrap(f.x + Drift(Sin(f.rot), r[1].v, dt),
                    f.err + ErrGrowth(f, p, dt)),
        wy \in Wrap(f.y + Drift(Cos(f.rot), r[2].v, dt),
                    f.err + ErrGrowth(f, p, dt)) }

Move(f, a, p, dt) == MoveWith(f, RandCalls(a, 3, <<>>), p, dt)

(* A recycle that pushes the fresh spawn onto the store as well *)
RecycleAppends(st, i, m, sp, p) ==
    [arr     |-> Append([st.arr EXCEPT ![i] = Respawn(m.f, sp.f, p)], sp.f),
     s       |-> sp.s,
     moved   |-> Append(st.moved, m.f),
     spawned |-> Append(st.spawned, [i |-> i, nf |-> sp.f])]

(* Lines 287-292: floater i, moved to m.f, is respawned from the spawn sp *)
Recycle(st, i, m, sp, p) ==
    [arr     |-> [st.arr EXCEPT ![i] = Respawn(m.f, sp.f, p)],
     s       |-> sp.s,
     moved   |-> Append(st.moved, m.f),
     spawned |-> Append(st.spawned, [i |-> i, nf |-> sp.f])]

(* Floater i, moved to m.f, stays in its slot *)
Keep(st, i, m) ==
    [arr     |-> [st.arr EXCEPT ![i] = m.f],
     s       |-> m.s,
     moved   |-> Append(st.moved, m.f),
     spawned |-> st.spawned]

(* One iteration of the for loop once floater i has been moved to m.f *)
Settle(st, i, m, p) ==
    { IF past THEN Recycle(st, i, m, spawn(m.s, p), p) ELSE Keep(st, i, m) :
        past \in PastNearPlane(m.f.z, m.f.err, p) }

(* Iteration i of the for loop, for i up to j, from state st *)
Step(st, i, j, p, dt) ==
    IF i > Min(j, Len(st.arr)) THEN {st}
    ELSE UNION { Settle(st, i, m, p) : m \in Move(st.arr[i], st.s, p, dt) }

(* The for loop over elementsRef.current, from index i on.  Each st of S     *)
(* carries arr, the generator state and the record of what was done to      *)
(* each floater.                                                             *)
RECURSIVE AdvanceTo(_, _, _, _, _)
AdvanceTo(S, i, j, p, dt) ==
    IF \A st \in S : i > Min(j, Len(st.arr)) THEN S
    ELSE AdvanceTo(UNION { Step(st, i, j, p, dt) : st \in S }, i + 1, j, p, dt)

RECURSIVE Advance(_, _, _, _)
Advance(S, i, p, dt) ==
    IF \A st \in S : i > Len(st.arr) THEN S
    ELSE Advance(AdvanceTo(S, i, i + Chunk - 1, p, dt), i + Chunk, p, dt)

(* lastTimeRef.current || t *)
LastOr(last, t) == IF last = 0 THEN t ELSE last

(* A dt without the clamp *)
FrameDtUnclamped(last, t) == t - LastOr(last, t)

(* dt = Math.min(0.05, (t - last) / 1000), in ms *)
FrameDt(last, t) == Min(DtMax, t - LastOr(last, t))

(* The life of a floater just spawned by map(spawn) *)
NewLife == [recycles |-> 0, moves |-> 0, span |-> 0]

(* The life of floater i after a for loop over dt ms that left the record   *)
(* r: a recycle closes the span of frames the floater was advanced in;      *)
(* another frame with dt > 0, in which line 278 ran for it, adds to the     *)
(* span                                                                      *)
Aged(b, r, i, dt) ==
    IF \E k \in 1..Len(r.spawned) : r.spawned[k].i = i
    THEN [recycles |-> b.life[i].recycles + 1, moves |-> 0,
          span |-> b.life[i].moves]
    ELSE IF dt # 0
    THEN [b.life[i] EXCEPT !.moves = @ + 1]
    ELSE b.life[i]

NoFrame == [ran |-> FALSE, before |-> <<>>, moved |-> <<>>, spawned |-> <<>>,
            elapsed |-> 0, dt |-> 0]

(* requestAnimationFrame(loop) by effect run e: the handle goes to rafRef *)
Schedule(e, b) ==
    [b EXCEPT !.pending = @ \cup {[id |-> b.nextRafId, owner |-> e]},
              !.rafRef = b.nextRafId,
              !.nextRafId = @ + 1]

(* The rest of loop(t) once the for loop has produced r *)
FrameDone(e, t, b, r) ==
    Schedule(e, [b EXCEPT !.elements = r.arr,
                          !.s = r.s,
                          !.lastTime = t,
                          !.advanced = @ + 1,
                          !.life = [i \in 1..Len(b.life) |->
                                       Aged(b, r, i, FrameDt(b.lastTime, t))],
                          !.frameLog =
                              [ran     |-> TRUE,
                               before  |-> b.elements,
                               moved   |-> r.moved,
                               spawned |-> r.spawned,
                               elapsed |-> t - LastOr(b.lastTime, t),
                               dt      |-> FrameDt(b.lastTime, t)]])

(* One invocation of effect run e's loop with timestamp t.  b is the state   *)
(* the callback reads and writes; the result is the set of states it can    *)
(* leave.                                                                    *)
loop(e, t, b, p) ==
    IF ~b.running[e] THEN {b}
    ELSE { FrameDone(e, t, b, r) :
             r \in Advance({[arr |-> b.elements, s |-> b.s, moved |-> <<>>,
                             spawned |-> <<>>]},
                           1, p, FrameDt(b.lastTime, t)) }

----------------------------------------------------------------------------
(* The effect, lines 237-314, and the browser around it *)

(* resize(), lines 85-95, for window w *)
resize(w) ==
    LET dpr == Max(8, Min(16, IF w.dpr = 0 THEN 8 ELSE w.dpr))
    IN  [width |-> (w.w * dpr) \div 8, height |-> (w.h * dpr) \div 8]

(* The state the component's callbacks read and write *)
Cur ==
    [s |-> s, elements |-> elements, rafRef |-> rafRef, lastTime |-> lastTime,
     running |-> running, pending |-> pending, nextRafId |-> nextRafId,
     listeners |-> listeners, canvas |-> canvas, frameLog |-> frameLog,
     advanced |-> advanced, life |-> life]

Commit(b) ==
    /\ s' = b.s
    /\ elements' = b.elements
    /\ rafRef' = b.rafRef
    /\ lastTime' = b.lastTime
    /\ running' = b.running
    /\ pending' = b.pending
    /\ nextRafId' = b.nextRafId
    /\ listeners' = b.listeners
    /\ canvas' = b.canvas
    /\ frameLog' = b.frameLog
    /\ advanced' = b.advanced
    /\ life' = b.life

(* The effect body, lines 238-307, run with props p, window w and a canvas   *)
(* whose getContext gave a context (ctx) or null                             *)
Seeded(p, b, w, pop) ==
    Schedule(Len(b.running) + 1,
             [b EXCEPT !.running = Append(@, TRUE),
                       !.elements = pop.elements,
                       !.s = pop.s,
                       !.canvas = resize(w),
                       !.listeners = @ \cup {Len(b.running) + 1},
                       !.frameLog = NoFrame,
                       !.life = [i \in 1..Len(pop.elements) |-> NewLife]])

(* new Array(target) at line 247 throws a RangeError when target is NaN: the *)
(* effect run ends there, before the store is assigned, the listener is      *)
(* registered and the first frame is requested, and returns no cleanup       *)
Throws(p, ctx) == ctx /\ target(p.density) = NaN

effect(p, b, w, ctx) ==
    IF ~ctx \/ Throws(p, ctx) THEN b
    ELSE Seeded(p, b, w, SpawnMany(target(p.density), b.s, p))

(* The component after the effect ran: React removes a tree whose effect     *)
(* threw                                                                     *)
Committed(p, ctx) == IF Throws(p, ctx) THEN "crashed" ELSE "mounted"

(* A cleanup that forgets cancelAnimationFrame *)
cleanupNoCancel(e, b) ==
    [b EXCEPT !.running[e] = FALSE,
              !.listeners = @ \ {e}]

(* The cleanup effect run e returned, lines 309-313 *)
cleanup(e, b) ==
    [b EXCEPT !.running[e] = FALSE,
              !.pending = IF b.rafRef # 0
                          THEN {c \in @ : c.id # b.rafRef}
                          ELSE @,
              !.listeners = @ \ {e}]

(* An effect that returns no cleanup *)
TeardownSkipped(b, ctx) == b

(* React runs the cleanup of the last effect run, when that run returned one *)
Teardown(b, ctx) ==
    IF ctx /\ Len(b.running) > 0 THEN cleanup(Len(b.running), b) ELSE b

RECURSIVE SortById(_)
SortById(S) ==
    IF S = {} THEN <<>>
    ELSE LET m == CHOOSE c \in S : \A d \in S : c.id <= d.id
         IN  <<m>> \o SortById(S \ {m})

(* The browser invokes the callbacks of one display refresh in handle       *)
(* order, from each state of B                                              *)
RECURSIVE RunCallbacks(_, _, _, _)
RunCallbacks(cbs, t, B, p) ==
    IF cbs = <<>> THEN B
    ELSE RunCallbacks(Tail(cbs), t,
                      UNION { loop(Head(cbs).owner, t, b, p) : b \in B }, p)

----------------------------------------------------------------------------
(* Inputs *)

(* The seed 0x5e6cfce7, whose first rand() leaves the generator at 0xffffffff *)
SeedBeforeAllOnes == 24172 * Word + 64743

(* The props a render may pass: the defaults; a fast configuration, also    *)
(* in another color and at another opacity; a reversed one with another     *)
(* depth range; one whose depth range is inverted, zMin > zMax + 5/3, so    *)
(* that line 80 gives the floaters spawned deepest a negative speed         *)
FastProps ==
    [DefaultProps EXCEPT !.seed = SeedBeforeAllOnes, !.density = 125,
                         !.speed = 300]

InvertedProps ==
    [DefaultProps EXCEPT !.seed = 7, !.density = 0, !.zMin = 3 * Unit,
                         !.zMax = Unit]

PropConfigs ==
    { DefaultProps,
      InvertedProps,
      FastProps,
      [FastProps EXCEPT !.color = "#94a3b8"],
      [FastProps EXCEPT !.opacity = 50],
      [DefaultProps EXCEPT !.seed = 42, !.density = 0, !.speed = 0 - 10,
                           !.zMin = Unit \div 2, !.zMax = Unit + Unit \div 2] }

Windows == { [w |-> 800, h |-> 600, dpr |-> 8],
             [w |-> 1025, h |-> 769, dpr |-> 12] }

Elapsed == {16, 100}

(* The props of the runs that only mount and animate: the same, the         *)
(* inverted depth range with a reversed multiplier, and with a seed whose   *)
(* first floater has a speed within SpawnErr of 0                           *)
FrameConfigs ==
    PropConfigs \cup {[InvertedProps EXCEPT !.speed = 0 - 10],
                      [InvertedProps EXCEPT !.seed = 279777097]}

RandSeeds == {1337, 42, 0, 0 - 1, SeedBeforeAllOnes, 0 - 530320634}

DensityInputs ==
    (100..150) \cup (1993..2007) \cup {0 - 50, 0 - 5, 0, 4, 5, 720, 10000, NaN}

----------------------------------------------------------------------------
(* Actions *)

InitAt(a) ==
    /\ phase = "init"
    /\ props = DefaultProps
    /\ hasCtx = FALSE
    /\ s = a
    /\ elements = <<>>
    /\ rafRef = 0
    /\ lastTime = 0
    /\ running = <<>>
    /\ pending = {}
    /\ nextRafId = 1
    /\ listeners = {}
    /\ win = [w |-> 800, h |-> 600, dpr |-> 8]
    /\ canvas = [width |-> 300, height |-> 150]
    /\ now = 0
    /\ ticks = 0
    /\ frameLog = NoFrame
    /\ advanced = 0
    /\ life = <<>>
    /\ calls = 0
    /\ v = 0

Init == InitAt(ToUint32(DefaultProps.seed))

(* First render and commit: useMemo builds rand from the seed, the effect runs *)
Mount(p, ctx) ==
    /\ phase = "init"
    /\ phase' = Committed(p, ctx)
    /\ props' = p
    /\ hasCtx' = ctx
    /\ \E b \in {effect(p, [Cur EXCEPT !.s = ToUint32(p.seed)], win, ctx)} :
           Commit(b)
    /\ UNCHANGED <<win, now, ticks, calls, v>>

(* A render with other props: useMemo rebuilds rand when the seed changed;   *)
(* color, density, opacity, speed, zMax, zMin and rand are the effect's      *)
(* dependencies, so the cleanup runs and then the effect                     *)
PropChange(p) ==
    /\ phase = "mounted"
    /\ p # props
    /\ Len(running) < MaxEffects
    /\ phase' = Committed(p, hasCtx)
    /\ props' = p
    /\ \E b \in {effect(p, [Teardown(Cur, hasCtx) EXCEPT
                                  !.s = IF p.seed # props.seed
                                        THEN ToUint32(p.seed) ELSE s],
                           win, hasCtx)} :
           Commit(b)
    /\ UNCHANGED <<hasCtx, win, now, ticks, calls, v>>

Unmount ==
    /\ phase = "mounted"
    /\ phase' = "unmounted"
    /\ \E b \in {Teardown(Cur, hasCtx)} : Commit(b)
    /\ UNCHANGED <<props, hasCtx, win, now, ticks, calls, v>>

(* A display refresh d ms after the last one, one of at most n: the browser   *)
(* empties its callback list and invokes each callback with the new          *)
(* timestamp                                                                 *)
RefreshWithin(d, n) ==
    /\ phase # "init"
    /\ ticks < n
    /\ ticks' = ticks + 1
    /\ now' = now + d
    /\ \E b \in RunCallbacks(SortById(pending), now + d,
                                {[Cur EXCEPT !.pending = {}, !.advanced = 0]},
                                props) :
           Commit(b)
    /\ UNCHANGED <<phase, props, hasCtx, win, calls, v>>

DisplayRefresh(d) == RefreshWithin(d, MaxTicks)

(* The window is resized to w: every registered onResize calls resize() *)
Resize(w) ==
    /\ phase # "init"
    /\ w # win
    /\ win' = w
    /\ canvas' = IF listeners # {} THEN resize(w) ELSE canvas
    /\ UNCHANGED <<phase, props, hasCtx, s, elements, rafRef, lastTime, running,
                   pending, nextRafId, listeners, now, ticks, frameLog, advanced,
                   life, calls, v>>

Next ==
    \/ \E p \in PropConfigs, ctx \in BOOLEAN : Mount(p, ctx)
    \/ \E p \in PropConfigs : PropChange(p)
    \/ Unmount
    \/ \E d \in Elapsed : DisplayRefresh(d)
    \/ \E w \in Windows : Resize(w)

Spec == Init /\ [][Next]_vars

(* The generator alone: any seed, any number of calls *)
InitRand == \E n \in RandSeeds : InitAt(ToUint32(n))

RandCall ==
    /\ calls < MaxCalls
    /\ calls' = calls + 1
    /\ s' = rand(s).s
    /\ v' = rand(s).v
    /\ UNCHANGED <<phase, props, hasCtx, elements, rafRef, lastTime, running,
                   pending, nextRafId, listeners, win, canvas, now, ticks,
                   frameLog, advanced, life>>

SpecRand == InitRand /\ [][RandCall]_vars

(* The effect's first run alone, for a range of requested densities *)
MountDensity(d, n) ==
    Mount([DefaultProps EXCEPT !.density = d, !.seed = n], TRUE)

NextDensity == \E d \in DensityInputs, n \in {1337, 42} : MountDensity(d, n)

SpecDensity == Init /\ [][NextDensity]_vars

(* A mounted component that only animates, for a longer run of frames *)
FrameRefresh(d) == RefreshWithin(d, MaxFrames)

NextFrames ==
    \/ \E p \in FrameConfigs : Mount(p, TRUE)
    \/ \E d \in Elapsed : FrameRefresh(d)

SpecFrames == Init /\ [][NextFrames]_vars

----------------------------------------------------------------------------
(* Properties *)

Floaters == 1..Len(elements)

(* The fresh spawns the last executed loop body drew for floater i *)
SpawnsFor(i) ==
    {k \in 1..Len(frameLog.spawned) : frameLog.spawned[k].i = i}

(* C1: every floater of the store has zMin <= z <= zMax, in every state *)
C1_DepthInRange ==
    \A i \in Floaters :
        props.zMin <= elements[i].z /\ elements[i].z <= props.zMax

(* C2: the number of floaters changes only when an effect run seeds the     *)
(* store: no frame, recycle, resize or unmount adds or removes a floater    *)
C2_CountFixed ==
    [][Len(running') = Len(running) => Len(elements') = Len(elements)]_vars

C2_Witness ==
    /\ frameLog.ran
    /\ frameLog.spawned # <<>>
    /\ win # [w |-> 800, h |-> 600, dpr |-> 8]
    /\ Len(elements) = target(props.density)

(* C3: a floater whose advanced z is at or below zMin * 0.85 keeps its type, *)
(* gets z = zMax and takes x, y, rot, speed and scaleJitter from exactly one *)
(* fresh spawn; every other floater keeps type, speed and scaleJitter and    *)
(* draws no spawn (the comparison is decided to within the floater's err)    *)
C3_RecycleKeepsType ==
    frameLog.ran =>
        \A i \in Floaters :
            IF SpawnsFor(i) # {}
            THEN /\ Cardinality(SpawnsFor(i)) = 1
                 /\ frameLog.moved[i].z - frameLog.moved[i].err
                        <= props.zMin - (props.zMin * 3 + 19) \div 20
                 /\ \A k \in SpawnsFor(i) :
                        LET nf == frameLog.spawned[k].nf
                        IN  /\ elements[i].type = frameLog.before[i].type
                            /\ elements[i].z = props.zMax
                            /\ elements[i].x = nf.x
                            /\ elements[i].y = nf.y
                            /\ elements[i].rot = nf.rot
                            /\ elements[i].speed = nf.speed
                            /\ elements[i].scaleJitter = nf.scaleJitter
            ELSE /\ frameLog.moved[i].z + frameLog.moved[i].err
                        > props.zMin - (props.zMin * 3 + 19) \div 20
                 /\ elements[i].type = frameLog.before[i].type
                 /\ elements[i].speed = frameLog.before[i].speed
                 /\ elements[i].scaleJitter = frameLog.before[i].scaleJitter

C3_Witness ==
    /\ frameLog.ran
    /\ \E i, j \in Floaters :
           /\ SpawnsFor(i) # {}
           /\ SpawnsFor(j) = {}
           /\ \E k \in SpawnsFor(i) :
                  frameLog.spawned[k].nf.type # frameLog.before[i].type

(* C4, as claimed: in every frame the decrease of every floater's z is at    *)
(* most speed * speedMultiplier * 0.05                                       *)
C4_StepBounded ==
    frameLog.ran =>
        \A i \in Floaters :
            frameLog.before[i].z - frameLog.moved[i].z
                <= (frameLog.before[i].speed \div Limb) * (props.speed * 50)
                     + ((frameLog.before[i].speed % Limb) * (props.speed * 50))
                           \div Limb

(* Whether the product of floater i's speed before the last frame and the   *)
(* speed multiplier is not negative, for a speed known to within SpawnErr:  *)
(* the truth values the comparison f.speed * speed >= 0 can have            *)
ProductNotNegative(i) ==
    (IF \/ props.speed = 0
        \/ props.speed > 0
             /\ frameLog.before[i].speed + SpawnErr(props) >= 0
        \/ props.speed < 0
             /\ frameLog.before[i].speed - SpawnErr(props) <= 0
     THEN {TRUE} ELSE {})
      \cup (IF \/ props.speed > 0
                  /\ frameLog.before[i].speed - SpawnErr(props) < 0
               \/ props.speed < 0
                  /\ frameLog.before[i].speed + SpawnErr(props) > 0
            THEN {FALSE} ELSE {})

(* C4, amended: in every frame the decrease of z is at most                  *)
(* speed * speedMultiplier * 0.05 for every floater whose speed times the    *)
(* speed multiplier is not negative, whatever the time between the two       *)
(* frame timestamps (the sign of the product is decided to within the error *)
(* of the floater's speed)                                                   *)
C4_StepBoundedForward ==
    frameLog.ran =>
        \A i \in Floaters :
            ProductNotNegative(i) = {TRUE} =>
                frameLog.before[i].z - frameLog.moved[i].z
                    <= (frameLog.before[i].speed \div Limb) * (props.speed * 50)
                         + ((frameLog.before[i].speed % Limb)
                                * (props.speed * 50)) \div Limb

(* The first frame after a re-run of the effect, more than 50 ms after the   *)
(* frame before: a floater of positive speed moved down, next to one of      *)
(* negative speed, which the bound does not cover                            *)
C4_Witness ==
    /\ frameLog.ran
    /\ props.speed > 0
    /\ frameLog.elapsed > 50
    /\ Len(running) > 1
    /\ \E i, j \in Floaters :
           /\ ProductNotNegative(i) = {TRUE}
           /\ frameLog.before[i].z - frameLog.before[i].err
                  > frameLog.moved[i].z + frameLog.moved[i].err
           /\ ProductNotNegative(j) = {FALSE}
           /\ frameLog.before[j].z + frameLog.before[j].err
                  < frameLog.moved[j].z - frameLog.moved[j].err

(* C5, as claimed: once the effect has run, the store holds the requested    *)
(* density rounded to the nearest integer when that lies in 12..200, 12      *)
(* floaters when it lies below and 200 when it lies above                    *)
C5_DensityClamped ==
    (phase # "init" /\ hasCtx) =>
        LET n == Len(elements)
            d == props.density
        IN  /\ 12 <= n /\ n <= 200
            /\ d # NaN =>
                  /\ (d + 5 < 130 => n = 12)
                  /\ (d + 5 >= 2000 => n = 200)
                  /\ (120 <= d + 5 /\ d + 5 < 2010 =>
                          10 * n <= d + 5 /\ d + 5 < 10 * n + 10)

(* C6: the population an effect run builds is the one the seed and the       *)
(* density determine: the first spawns of a generator started at the seed    *)
C6_PopulationFromSeed ==
    (phase = "mounted" /\ hasCtx /\ ~frameLog.ran) =>
        elements = SpawnMany(target(props.density), ToUint32(props.seed),
                             props).elements

(* C7: every value rand() returns satisfies 0 <= v < 1 *)
C7_RandInUnitInterval == 0 <= v /\ v < Unit

(* C8: once the component is torn down no frame callback is pending, no      *)
(* resize listener is registered and no effect run is running, and no later  *)
(* step changes the store, the generator, the frame clock or the canvas      *)
C8_TeardownStops ==
    /\ [](phase = "unmounted" =>
            /\ pending = {}
            /\ listeners = {}
            /\ \A e \in 1..Len(running) : ~running[e])
    /\ [][phase = "unmounted" =>
            /\ elements' = elements
            /\ s' = s
            /\ lastTime' = lastTime
            /\ frameLog' = frameLog
            /\ canvas' = canvas]_vars

C8_Witness ==
    /\ phase = "unmounted"
    /\ hasCtx
    /\ frameLog.ran
    /\ now > lastTime
    /\ canvas # resize(win)

(* C9, as claimed: in every frame a floater that is not recycled does not    *)
(* get a larger z, and a recycled one gets z = zMax                          *)
C9_DepthNeverIncreases ==
    frameLog.ran =>
        \A i \in Floaters :
            IF SpawnsFor(i) # {}
            THEN elements[i].z = props.zMax
            ELSE elements[i].z <= frameLog.before[i].z

(* C9, amended: in every frame a floater that is not recycled and whose     *)
(* speed times the speed multiplier is not negative does not get a larger    *)
(* z, and a recycled floater gets z = zMax (the sign of the product is       *)
(* decided to within the error of the floater's speed)                      *)
C9_DepthNeverIncreasesForward ==
    frameLog.ran =>
        \A i \in Floaters :
            IF SpawnsFor(i) # {}
            THEN elements[i].z = props.zMax
            ELSE ProductNotNegative(i) = {TRUE} =>
                     elements[i].z <= frameLog.before[i].z

(* A floater is recycled for the second time, after frames in which it       *)
(* moved down from the zMax its first recycle gave it, in a frame in which   *)
(* another floater moved down without being recycled                         *)
C9_Witness ==
    /\ frameLog.ran
    /\ props.speed > 0
    /\ frameLog.dt > 0
    /\ \E i, j \in Floaters :
           /\ SpawnsFor(i) # {}
           /\ life[i].recycles >= 2
           /\ life[i].span >= 1
           /\ ProductNotNegative(i) = {TRUE}
           /\ frameLog.before[i].z + frameLog.before[i].err < props.zMax
           /\ elements[i].z = props.zMax
           /\ SpawnsFor(j) = {}
           /\ ProductNotNegative(j) = {TRUE}
           /\ elements[j].z + elements[j].err
                  < frameLog.before[j].z - frameLog.before[j].err

(* C10: at most one effect run is running and at most one frame callback is  *)
(* pending; a pending callback belongs to the running effect run, and one    *)
(* display refresh runs at most one loop body                                *)
C10_SingleLoop ==
    /\ Cardinality({e \in 1..Len(running) : running[e]}) <= 1
    /\ Cardinality(pending) <= 1
    /\ \A c \in pending : running[c.owner] /\ c.id = rafRef
    /\ advanced <= 1

C10_Witness ==
    /\ Len(running) = 2
    /\ ~running[1]
    /\ running[2]
    /\ advanced = 1
    /\ frameLog.ran
    /\ Cardinality(pending) = 1

====
